---- MODULE Spec2Model ----
(***************************************************************************)
(* Model of sentiment-chat/server.py: the connection registry `clients`,   *)
(* the login handshake, broadcast(), send_direct_message() and the main    *)
(* loop / command dispatcher of handle_client().                           *)
(*                                                                         *)
(* asyncio runs the handler coroutines on one thread: a handler runs       *)
(* without interruption from one `await` to the next.  Every action below  *)
(* is one such run: it resumes a handler at the await it is suspended on   *)
(* (the value of pc), decides the outcome of that await, and executes the  *)
(* code up to the next await.                                              *)
(***************************************************************************)
EXTENDS Naturals, Integers, Sequences, FiniteSets, TLC

(***************************************************************************)
(* Bounds of the model.                                                    *)
(***************************************************************************)
NConns == 3        \* connections (StreamWriter handles) the listener accepts
MaxRecords == 1    \* records read by all main loops together
MaxOddLogins == 1  \* connections whose first record is not the login of client.py
MaxFaults == 1     \* connections whose peer breaks them, so that writes fail

Conns == 1 .. NConns

(***************************************************************************)
(* Text.  A str is a sequence of one-character strings.                    *)
(***************************************************************************)
SP == " "
T_TRANSLATE == <<"!", "t", "r", "a", "n", "s", "l", "a", "t", "e">>
T_GENERATE == <<"!", "g", "e", "n", "e", "r", "a", "t", "e">>
T_NER == <<"!", "n", "e", "r">>
T_FR == <<"f", "r">>
T_HI == <<"h", "i">>
EmptyStr == << >>

\* a test for the whole text in the place of its beginning
StartsWith_Exact(s, prefix) == s = prefix

\* str.startswith(prefix)
StartsWith(s, prefix) ==
    /\ Len(s) >= Len(prefix)
    /\ SubSeq(s, 1, Len(prefix)) = prefix

RECURSIVE LStrip(_)
\* leading whitespace removed
LStrip(s) ==
    IF s # << >> /\ Head(s) = SP THEN LStrip(Tail(s)) ELSE s

RECURSIVE RStrip(_)
\* trailing whitespace removed
RStrip(s) ==
    IF s # << >> /\ s[Len(s)] = SP THEN RStrip(SubSeq(s, 1, Len(s) - 1)) ELSE s

\* str.strip()
Strip(s) == RStrip(LStrip(s))

RECURSIVE SplitSp(_, _)
\* str.split(" ", maxsplit): the list of parts
SplitSp(s, maxsplit) ==
    IF maxsplit = 0 \/ ~(\E i \in 1 .. Len(s) : s[i] = SP)
    THEN <<s>>
    ELSE LET i == CHOOSE k \in 1 .. Len(s) :
                       /\ s[k] = SP
                       /\ \A j \in 1 .. k - 1 : s[j] # SP
         IN  <<SubSeq(s, 1, i - 1)>> \o SplitSp(SubSeq(s, i + 1, Len(s)), maxsplit - 1)

\* message_text.replace(prefix, "", 1) for a text that starts with prefix
DropPrefix(s, prefix) == SubSeq(s, Len(prefix) + 1, Len(s))

(***************************************************************************)
(* Records on the wire, client to server.  `json` says what json.loads     *)
(* makes of the line: a JSONDecodeError, a value that is not a dict, or a  *)
(* dict whose keys are given by the other fields (NoKey: key absent).      *)
(***************************************************************************)
NoKey == "<absent>"
EOF == [json |-> "eof", type |-> NoKey, username |-> NoKey, hasMsg |-> FALSE, message |-> EmptyStr]

Malformed == [json |-> "malformed", type |-> NoKey, username |-> NoKey, hasMsg |-> FALSE, message |-> EmptyStr]

NonObject == [json |-> "nonobject", type |-> NoKey, username |-> NoKey, hasMsg |-> FALSE, message |-> EmptyStr]

\* a local variable that holds a record and has not been assigned yet
Unbound == [json |-> "unbound", type |-> NoKey, username |-> NoKey, hasMsg |-> FALSE, message |-> EmptyStr]

Obj(t, u, has, m) == [json |-> "object", type |-> t, username |-> u, hasMsg |-> has, message |-> m]

\* the first record client.py:40 sends
StdLogin == Obj("login", "alice", FALSE, EmptyStr)

\* first records a client may send
LoginInputs ==
    { StdLogin,
      Obj("login", "", FALSE, EmptyStr),
      Obj("login", NoKey, FALSE, EmptyStr),
      Obj("chat_message", NoKey, TRUE, T_HI),
      Obj(NoKey, NoKey, TRUE, T_HI),
      Malformed, NonObject, EOF }

\* message texts of later records
Texts ==
    { T_HI,
      T_TRANSLATE \o <<SP>> \o T_FR \o <<SP>> \o T_HI,
      T_TRANSLATE \o <<SP>> \o T_FR,
      T_GENERATE \o <<SP>> \o T_HI,
      T_GENERATE \o <<SP>>,
      T_NER \o <<SP>> \o T_HI,
      T_NER }

\* later records a client may send (client.py:51 sends {"message": text})
MainInputs ==
    { Obj(NoKey, NoKey, TRUE, m) : m \in Texts }
        \cup { Obj("chat_message", NoKey, TRUE, T_HI),
               Obj("bogus", NoKey, TRUE, T_HI),
               Malformed, NonObject }

(***************************************************************************)
(* Envelopes, server to client.  `note` stands for the fixed wording of    *)
(* the "message" value, `text` for the text it quotes, `username` for the  *)
(* "username" key (NoKey when the envelope has none).  The "timestamp"     *)
(* key is left out.                                                        *)
(***************************************************************************)
NoLabel == "<none>"
Labels == {"POSITIVE", "NEGATIVE"}

Env(t, u, n, x, l) == [type |-> t, username |-> u, note |-> n, text |-> x, label |-> l]

NoMsg == Env("<none>", NoKey, "", EmptyStr, NoLabel)

\* server.py:69-70; the text names the user
Welcome(u) == Env("server_notification", NoKey, "welcome " \o u, EmptyStr, NoLabel)

\* server.py:75-76
JoinNotice(u) == Env("server_notification", NoKey, "joined " \o u, EmptyStr, NoLabel)

\* server.py:172-173
LeaveNotice(u) == Env("server_notification", NoKey, "left " \o u, EmptyStr, NoLabel)

\* server.py:83
InvalidLogin == Env("error", NoKey, "invalid login", EmptyStr, NoLabel)

\* server.py:158
MalformedJson == Env("error", NoKey, "malformed json", EmptyStr, NoLabel)

\* server.py:161
InternalError == Env("error", NoKey, "internal server error", EmptyStr, NoLabel)

(***************************************************************************)
(* The registry `clients`: a dict keeps insertion order, so it is a        *)
(* sequence of (writer, username) entries with distinct writers.           *)
(***************************************************************************)
\* writer in clients
InClients(reg, w) == \E i \in 1 .. Len(reg) : reg[i].w = w

\* a snapshot that misses the key that was added last
Keys_SkipNewest(reg) == [i \in 1 .. Len(reg) - 1 |-> reg[i].w]

\* list(clients.keys())
Keys(reg) == [i \in 1 .. Len(reg) |-> reg[i].w]

\* a registration that is left out
Insert_Never(reg, w, u) == reg

\* clients[writer] = username, for a writer that is not a key yet
Insert(reg, w, u) == Append(reg, [w |-> w, name |-> u])

\* del clients[writer], for a writer that is a key
Del(reg, w) == SelectSeq(reg, LAMBDA e : e.w # w)

\* clients.get(writer, default)
Get(reg, w, default) ==
    IF InClients(reg, w)
    THEN reg[CHOOSE i \in 1 .. Len(reg) : reg[i].w = w].name
    ELSE default

(***************************************************************************)
(* get_model and the pipelines.  ML_MODELS is the set of loaded model      *)
(* names; whether a load succeeds and whether a call raises are the        *)
(* environment's choice.                                                   *)
(***************************************************************************)
M_SENTIMENT == <<"sentiment", EmptyStr>>
M_GENERATOR == <<"generator", EmptyStr>>
M_NER == <<"ner", EmptyStr>>
M_Translator(lang) == <<"translator_en_", lang>>

\* get_model: [model |-> a pipeline was returned, models |-> ML_MODELS afterwards]
GetModel(models, name, loadOk) ==
    IF name \in models
    THEN [model |-> TRUE, models |-> models]
    ELSE IF loadOk
         THEN [model |-> TRUE, models |-> models \cup {name}]
         ELSE [model |-> FALSE, models |-> models]

(***************************************************************************)
(* The command dispatcher, server.py:97-154, for a decoded dict.           *)
(***************************************************************************)
\* Route with the !ner branch of line 130 left out
Route_NoNer(text) ==
    IF StartsWith(text, T_TRANSLATE) THEN "translate"
    ELSE IF StartsWith(text, T_GENERATE) THEN "generate"
    ELSE "default"

\* the branch of the if/elif chain that a message text takes
Route(text) ==
    IF StartsWith(text, T_TRANSLATE) THEN "translate"
    ELSE IF StartsWith(text, T_GENERATE) THEN "generate"
    ELSE IF StartsWith(text, T_NER) THEN "ner"
    ELSE "default"

\* Raised that sends the text on to everybody, without a label, instead of
\* answering the sender with an error
Raised_SendAnyway(u, text, ms, c) ==
    [msg |-> Env("chat_message", u, "chat", text, NoLabel), models |-> ms, k |-> "chat",
     collab |-> c]

\* lines 159-161: an exception of the loop body (a pipeline call that
\* raises, None called as a pipeline) is caught and answered with an error
Raised(u, text, ms, c) ==
    [msg |-> InternalError, models |-> ms, k |-> "loop", collab |-> c]

\* The outcome of one pass through the dispatcher for the user u:
\*   msg    the envelope handed to the first send_direct_message,
\*   models ML_MODELS afterwards,
\*   k      "chat" when the pass goes on to broadcast(response, writer),
\*   collab what became of the collaborator: "none" no pipeline was asked
\*          for or called, "unavailable" get_model returned None, "ok" the
\*          call returned, "raised" the call raised.
\* loadOk: a model that is not loaded yet loads; callOk: the pipeline call
\* returns; label: the label the sentiment pipeline returns.
Dispatch(u, text, models, loadOk, callOk, label) ==
    LET direct(t, n, x, ms, c) ==
            [msg |-> Env(t, u, n, x, NoLabel), models |-> ms, k |-> "loop", collab |-> c]
    IN  CASE Route(text) = "translate" ->
               LET parts == SplitSp(text, 2)
               IN  IF Len(parts) < 3
                   THEN direct("error", "usage translate", EmptyStr, models, "none")
                   ELSE LET g == GetModel(models, M_Translator(parts[2]), loadOk)
                        IN  IF g.model
                            THEN IF callOk
                                 THEN direct("server_response", "translation", parts[3],
                                             g.models, "ok")
                                 ELSE Raised(u, text, g.models, "raised")
                            ELSE direct("error", "translation model not available", parts[2],
                                        g.models, "unavailable")
          [] Route(text) = "generate" ->
               LET prompt == Strip(DropPrefix(text, T_GENERATE))
                   g == GetModel(models, M_GENERATOR, loadOk)
               IN  IF g.model /\ prompt # EmptyStr
                   THEN IF callOk
                        THEN direct("server_response", "generated text", prompt, g.models, "ok")
                        ELSE Raised(u, text, g.models, "raised")
                   ELSE direct("error", "usage generate", EmptyStr, g.models,
                               IF g.model THEN "none" ELSE "unavailable")
          [] Route(text) = "ner" ->
               LET txt == Strip(DropPrefix(text, T_NER))
                   g == GetModel(models, M_NER, loadOk)
               IN  IF g.model /\ txt # EmptyStr
                   THEN IF callOk
                        THEN direct("server_response", "entities found", txt, g.models, "ok")
                        ELSE Raised(u, text, g.models, "raised")
                   ELSE direct("error", "usage ner", EmptyStr, g.models,
                               IF g.model THEN "none" ELSE "unavailable")
          [] OTHER ->
               LET g == GetModel(models, M_SENTIMENT, loadOk)
               IN  IF g.model /\ callOk
                   THEN [msg |-> Env("chat_message", u, "chat", text, label),
                         models |-> g.models, k |-> "chat", collab |-> "ok"]
                   ELSE Raised(u, text, g.models, IF g.model THEN "raised" ELSE "unavailable")

\* a loop body that takes chat_message records only and answers every
\* other object with an error
Handle_TypeRequired(u, request, rec, models, loadOk, callOk, label) ==
    CASE rec.json = "malformed" ->
             [msg |-> MalformedJson, models |-> models, k |-> "loop", collab |-> "none",
              request |-> request]
      [] rec.json = "nonobject" \/ rec.type # "chat_message" ->
             [msg |-> InternalError, models |-> models, k |-> "loop", collab |-> "none",
              request |-> rec]
      [] OTHER ->
             LET d == Dispatch(u, Strip(IF rec.hasMsg THEN rec.message ELSE EmptyStr),
                               models, loadOk, callOk, label)
             IN  [msg |-> d.msg, models |-> d.models, k |-> d.k, collab |-> d.collab,
                  request |-> rec]

\* server.py:95-161: what the body of the main loop makes of one record;
\* request is the local variable of that name before the pass, and the
\* outcome of Dispatch is extended with its value after the pass
Handle(u, request, rec, models, loadOk, callOk, label) ==
    CASE rec.json = "malformed" ->
             [msg |-> MalformedJson, models |-> models, k |-> "loop", collab |-> "none",
              request |-> request]
      [] rec.json = "nonobject" ->
             [msg |-> InternalError, models |-> models, k |-> "loop", collab |-> "none",
              request |-> rec]
      [] OTHER ->
             LET d == Dispatch(u, Strip(IF rec.hasMsg THEN rec.message ELSE EmptyStr),
                               models, loadOk, callOk, label)
             IN  [msg |-> d.msg, models |-> d.models, k |-> d.k, collab |-> d.collab,
                  request |-> rec]

(***************************************************************************)
(* State.                                                                  *)
(*   clients    the registry                                               *)
(*   ML_MODELS  the loaded models                                          *)
(*   task[h]    the handle_client coroutine of connection h: the await it  *)
(*              is suspended on and its local variables                    *)
(*   outbox[h]  what has been written to the peer of h                     *)
(*   broken[h]  a write to h has failed with ConnectionError               *)
(*   closed[h]  writer.close() has been called on h                        *)
(*   nrec       records read by the main loops                             *)
(***************************************************************************)
VARIABLES clients, ML_MODELS, task, outbox, broken, closed, nrec

vars == <<clients, ML_MODELS, task, outbox, broken, closed, nrec>>

\* pc: "idle" not accepted yet; "login_read" line 60; "direct_drain" line 46;
\*     "bcast_drain" line 37; "read" line 91; "wait_closed" lines 85 and 170;
\*     "in_call" inside get_model or a pipeline call (lines 112-145), which
\*     is no await; "done" returned; "crashed" ended by an exception nothing
\*     caught; "cancelled" ended by CancelledError.
\* cont: what the handler is in the middle of: "welcome" (68), "join" (74),
\*     "reject" (84-85), "loop" (118-141, 158, 161), "chat" (153-154),
\*     "leave" (166-174).
\* Locals of the code: login_info, username, request, response (the
\*     envelope being sent),
\*     all_writers and idx (the snapshot of broadcast and the position of the
\*     writer being drained).
\* The Task object: cancel ("no" cancel() was not called on it, "pending"
\*     it was and the CancelledError is still to be thrown into the
\*     coroutine, "delivered" it was thrown or the task had ended before).
\* History: req (number of the record being handled, 0 in the handshake),
\*     collab (what became of the collaborator for that record),
\*     peers (the keys of clients when broadcast was called), failed (the
\*     writers whose write failed in that broadcast), bcast ("none",
\*     "filtered" returned at line 28, "running", "returned", "raised").
NewTask ==
    [pc |-> "idle", cont |-> "", login_info |-> Unbound, username |-> NoKey,
     request |-> Unbound, response |-> NoMsg,
     all_writers |-> << >>, idx |-> 0, cancel |-> "no", req |-> 0,
     collab |-> "none", peers |-> << >>, failed |-> {}, bcast |-> "none"]

Init ==
    /\ clients = << >>
    /\ ML_MODELS \in {{}, {M_SENTIMENT}}
    /\ task = [h \in Conns |-> NewTask]
    /\ outbox = [h \in Conns |-> << >>]
    /\ broken = [h \in Conns |-> FALSE]
    /\ closed = [h \in Conns |-> FALSE]
    /\ nrec = 0

\* a write to w followed by drain() returns without ConnectionError
Writable(w) == ~broken[w] /\ ~closed[w]

\* the environment may still break the connection w
MayBreak(w) == Writable(w) /\ Cardinality({c \in Conns : broken[c]}) < MaxFaults

\* the first record of connection c was not StdLogin
OddLogin(c) == task[c].pc \notin {"idle", "login_read"} /\ task[c].username # StdLogin.username

\* writer.write with the data put ahead of what was written before
Write_Front(box, d) == <<d>> \o box

\* writer.write, lines 36 and 45: the stream keeps the order of the writes
Write(box, d) == Append(box, d)

\* one delivered envelope, with where it came from
Delivery(m, h, via) == [env |-> m, origin |-> h, req |-> task[h].req, via |-> via]

(***************************************************************************)
(* broadcast(), server.py:24-40.                                           *)
(***************************************************************************)
\* line 27: the types broadcast() lets through
BroadcastEligible(m) == m.type = "chat_message"

\* NextIdx without the test of line 33: the sender is written to as well
NextIdx_NoSkip(ws, i, sender) ==
    IF i < Len(ws) THEN i + 1 ELSE 0

\* lines 32-33: the position of the next writer after position i of the
\* snapshot ws that is not the sender; 0 when the loop is over
NextIdx(ws, i, sender) ==
    IF \E j \in (i + 1) .. Len(ws) : ws[j] # sender
    THEN CHOOSE j \in (i + 1) .. Len(ws) :
             /\ ws[j] # sender
             /\ \A n \in (i + 1) .. (j - 1) : ws[n] = sender
    ELSE 0

\* the caller goes on after broadcast() returned: the handshake and the main
\* loop go to `await reader.readline()` (line 91), the finally block ends
AfterBroadcast(t, k) ==
    IF k = "leave" THEN [t EXCEPT !.pc = "done", !.cont = k]
    ELSE [t EXCEPT !.pc = "read", !.cont = k]

\* The task t of handler h calls broadcast(m, writer) on the registry reg,
\* as part k of the handler, and runs to the next await.
BroadcastFrom(t, h, m, reg, k) ==
    LET ws == Keys(reg)
        j == NextIdx(ws, 0, h)
        called == [t EXCEPT !.peers = ws, !.failed = {}, !.response = m]
    IN  IF ~BroadcastEligible(m)
        THEN AfterBroadcast([called EXCEPT !.bcast = "filtered"], k)
        ELSE IF j = 0
             THEN AfterBroadcast([called EXCEPT !.bcast = "returned", !.all_writers = ws], k)
             ELSE [called EXCEPT !.pc = "bcast_drain", !.cont = k, !.bcast = "running",
                                 !.all_writers = ws, !.idx = j]

(***************************************************************************)
(* handle_client(), server.py:53-174.                                      *)
(***************************************************************************)
\* IsLogin that also demands a non-empty username
IsLogin_Strict(rec) ==
    /\ rec.json = "object"
    /\ rec.type = "login"
    /\ rec.username \notin {NoKey, ""}

\* line 62: the first record is taken as a login
IsLogin(rec) == rec.json = "object" /\ rec.type = "login"

\* line 63: the name the session gets; addr[1] is the peer's port
LoginName(rec, h) ==
    IF rec.username = NoKey THEN "user_" \o ToString(h) ELSE rec.username

\* the listener starts handle_client for a new connection, which runs to the
\* readline of line 60
Accept(h) ==
    /\ task[h].pc = "idle"
    /\ task' = [task EXCEPT ![h].pc = "login_read"]
    /\ UNCHANGED <<clients, ML_MODELS, outbox, broken, closed, nrec>>

\* lines 60-85: readline returns the first record
LoginRead(h, rec) ==
    LET t == task[h]
    IN  /\ t.pc = "login_read"
        /\ rec # StdLogin => Cardinality({c \in Conns : OddLogin(c)}) < MaxOddLogins
        /\ IF rec.json = "nonobject"
           THEN \* login_info.get raises AttributeError, which line 81 does not catch
                /\ task' = [task EXCEPT ![h] = [t EXCEPT !.pc = "crashed", !.cont = "reject",
                                                         !.login_info = rec]]
                /\ UNCHANGED clients
           ELSE IF IsLogin(rec)
           THEN LET u == LoginName(rec, h)
                IN  /\ clients' = Insert(clients, h, u)
                    /\ task' = [task EXCEPT ![h] =
                                   [t EXCEPT !.pc = "direct_drain", !.cont = "welcome",
                                             !.login_info = rec, !.username = u,
                                             !.response = Welcome(u)]]
           ELSE \* JSONDecodeError (also for the empty line of EOF) or ValueError
                /\ task' = [task EXCEPT ![h] =
                               [t EXCEPT !.pc = "direct_drain", !.cont = "reject",
                                         !.login_info = IF rec.json = "object" THEN rec
                                                        ELSE Unbound,
                                         !.response = InvalidLogin]]
                /\ UNCHANGED clients
        /\ UNCHANGED <<ML_MODELS, outbox, broken, closed, nrec>>

\* send_direct_message, lines 42-50: drain() of the handler's own writer
\* returns (ok) or raises ConnectionError; then the caller goes on to its
\* next await
DirectDrain(h, ok) ==
    LET t == task[h]
        reg == IF ~ok /\ InClients(clients, h) THEN Del(clients, h) ELSE clients
        t1 == t
    IN  /\ t.pc = "direct_drain"
        /\ IF ok THEN Writable(h) ELSE closed[h] \/ broken[h] \/ MayBreak(h)
        /\ outbox' = IF ok THEN [outbox EXCEPT ![h] = Write(@, Delivery(t.response, h, "direct"))]
                     ELSE outbox
        /\ broken' = IF ok \/ closed[h] THEN broken ELSE [broken EXCEPT ![h] = TRUE]
        /\ clients' = reg
        /\ CASE t.cont = "welcome" ->
                  /\ task' = [task EXCEPT ![h] =
                                 BroadcastFrom(t1, h, JoinNotice(t.username), reg, "join")]
                  /\ UNCHANGED closed
             [] t.cont = "reject" ->
                  /\ task' = [task EXCEPT ![h] = [t1 EXCEPT !.pc = "wait_closed"]]
                  /\ closed' = [closed EXCEPT ![h] = TRUE]
             [] t.cont = "chat" ->
                  /\ task' = [task EXCEPT ![h] = BroadcastFrom(t1, h, t.response, reg, "chat")]
                  /\ UNCHANGED closed
             [] OTHER ->
                  /\ task' = [task EXCEPT ![h] = [t1 EXCEPT !.pc = "read"]]
                  /\ UNCHANGED closed
        /\ UNCHANGED <<ML_MODELS, nrec>>

\* broadcast, lines 32-40: drain() of the recipient at position idx returns
\* (ok) or raises ConnectionError; then the loop goes on to the next write
BcastDrain(h, ok) ==
    LET t == task[h]
        w == t.all_writers[t.idx]
        j == NextIdx(t.all_writers, t.idx, h)
        t1 == IF ok THEN t ELSE [t EXCEPT !.failed = @ \cup {w}]
    IN  /\ t.pc = "bcast_drain"
        /\ IF ok THEN Writable(w) ELSE closed[w] \/ broken[w] \/ MayBreak(w)
        /\ outbox' = IF ok THEN [outbox EXCEPT ![w] = Write(@, Delivery(t.response, h, "broadcast"))]
                     ELSE outbox
        /\ broken' = IF ok \/ closed[w] THEN broken ELSE [broken EXCEPT ![w] = TRUE]
        /\ IF ~ok /\ ~InClients(clients, w)
           THEN \* line 40: del clients[writer] raises KeyError
                /\ UNCHANGED clients
                /\ task' = [task EXCEPT ![h] =
                               IF t.cont = "chat"
                               THEN \* line 159 catches it; line 161
                                    [t1 EXCEPT !.pc = "direct_drain", !.cont = "loop",
                                               !.bcast = "raised", !.response = InternalError]
                               ELSE [t1 EXCEPT !.pc = "crashed", !.bcast = "raised"]]
           ELSE /\ clients' = IF ok THEN clients ELSE Del(clients, w)
                /\ task' = [task EXCEPT ![h] =
                               IF j # 0 THEN [t1 EXCEPT !.idx = j]
                               ELSE AfterBroadcast([t1 EXCEPT !.bcast = "returned"], t.cont)]
        /\ UNCHANGED <<ML_MODELS, closed, nrec>>

\* what the loop body can make of the record rec, over the choices of the
\* environment: a model loads or not, a pipeline call returns or raises, the
\* sentiment label
Outcomes(t, rec) ==
    { Handle(t.username, t.request, rec, ML_MODELS, loadOk, callOk, label) :
          loadOk \in BOOLEAN, callOk \in BOOLEAN, label \in Labels }

\* the outcomes of the next pass of the main loop of h, over the records
\* of inputs that its peer may send, while fewer than cap records were read
ReadOutcomesOf(h, inputs, cap) ==
    IF task[h].pc = "read" /\ nrec < cap
    THEN UNION { Outcomes(task[h], rec) : rec \in inputs }
    ELSE {}

\* the outcomes of the next pass of the main loop of h, over the records
\* its peer may send
ReadOutcomes(h) == ReadOutcomesOf(h, MainInputs, MaxRecords)

\* the loop body has handled a record with the outcome r and the handler
\* is at pc1
ReadTo(h, r, pc1) ==
    LET t == task[h]
    IN  /\ nrec' = nrec + 1
        /\ ML_MODELS' = r.models
        /\ task' = [task EXCEPT ![h] =
                       [t EXCEPT !.pc = pc1, !.cont = r.k, !.response = r.msg,
                                 !.request = r.request, !.collab = r.collab,
                                 !.req = nrec + 1, !.all_writers = << >>, !.idx = 0,
                                 !.peers = << >>, !.failed = {},
                                 !.bcast = "none"]]
        /\ UNCHANGED <<clients, outbox, broken, closed>>

\* lines 91-161: readline returns the next record, which the loop body
\* handles up to its first send
Read(h) == \E r \in ReadOutcomes(h) : ReadTo(h, r, "direct_drain")

\* lines 166-170: the finally block of handler h, whose task is in the
\* state t, runs to wait_closed
RunFinally(h, t) ==
    LET t1 == [t EXCEPT !.cont = "leave", !.response = NoMsg, !.all_writers = << >>,
                        !.idx = 0, !.peers = << >>, !.failed = {},
                        !.bcast = "none"]
    IN  /\ IF InClients(clients, h)
           THEN /\ clients' = Del(clients, h)
                /\ closed' = [closed EXCEPT ![h] = TRUE]
                /\ task' = [task EXCEPT ![h] = [t1 EXCEPT !.pc = "wait_closed"]]
           ELSE \* line 168: del clients[writer] raises KeyError
                /\ task' = [task EXCEPT ![h] = [t1 EXCEPT !.pc = "crashed"]]
                /\ UNCHANGED <<clients, closed>>
        /\ UNCHANGED <<ML_MODELS, broken, nrec>>

\* lines 92-93 and 166-170: readline returns b'', the loop ends and the
\* finally block runs to wait_closed
ReadEOF(h) ==
    /\ task[h].pc = "read"
    /\ RunFinally(h, task[h])
    /\ UNCHANGED outbox

\* lines 85 and 170-174: wait_closed returns
WaitClosed(h) ==
    LET t == task[h]
    IN  /\ t.pc = "wait_closed"
        /\ task' = [task EXCEPT ![h] =
                       IF t.cont = "reject" THEN [t EXCEPT !.pc = "done"]
                       ELSE BroadcastFrom(t, h, LeaveNotice(Get(clients, h, "A user")),
                                          clients, "leave")]
        /\ UNCHANGED <<clients, ML_MODELS, outbox, broken, closed, nrec>>

Next ==
    \/ \E h \in Conns : Accept(h)
    \/ \E h \in Conns, rec \in LoginInputs : LoginRead(h, rec)
    \/ \E h \in Conns, ok \in BOOLEAN : DirectDrain(h, ok)
    \/ \E h \in Conns, ok \in BOOLEAN : BcastDrain(h, ok)
    \/ \E h \in Conns : Read(h)
    \/ \E h \in Conns : ReadEOF(h)
    \/ \E h \in Conns : WaitClosed(h)

Spec == Init /\ [][Next]_vars

(***************************************************************************)
(* Sessions at the grain of the event loop: a collaborator call is a step  *)
(* of its own during which the loop runs nothing else, a sender may send   *)
(* several records, and the server may be stopped, which cancels every     *)
(* handler that has not ended (asyncio.run, server.py:181-192). The writes *)
(* of these sessions succeed; Spec has the writes that fail.               *)
(***************************************************************************)
MaxChatRecords == 2

\* the first records and the records of these sessions
ChatLogins == {StdLogin}
ChatInputs == {Obj(NoKey, NoKey, TRUE, T_HI)}

\* the places where a handler is suspended on an await
Awaits == {"login_read", "direct_drain", "bcast_drain", "read", "wait_closed"}

\* lines 112-145 are calls, not awaits: while a handler is in get_model or in
\* a pipeline, the event loop is inside that call
Blocked == \E h \in Conns : task[h].pc = "in_call"

\* asyncio.run has begun to cancel the tasks
Stopping == \E h \in Conns : task[h].cancel # "no"

\* lines 91-145: readline returns the next record and the loop body enters
\* the collaborator call that the record needs, if any; the sentiment
\* pipeline of these sessions answers POSITIVE or raises
ReadCall(h) ==
    \E r \in ReadOutcomesOf(h, ChatInputs, MaxChatRecords) :
        /\ r.msg.label # "NEGATIVE"
        /\ ReadTo(h, r, IF r.collab = "none" THEN "direct_drain" ELSE "in_call")

\* the collaborator call returns or raises, and the loop body goes on to its
\* first send
CallReturn(h) ==
    /\ task[h].pc = "in_call"
    /\ task' = [task EXCEPT ![h].pc = "direct_drain"]
    /\ UNCHANGED <<clients, ML_MODELS, outbox, broken, closed, nrec>>

\* asyncio.run leaves main(): every task that has not ended is cancelled at
\* once
Shutdown ==
    /\ ~Stopping
    /\ \E h \in Conns : task[h].pc \in Awaits
    /\ task' = [h \in Conns |->
                   [task[h] EXCEPT !.cancel = IF task[h].pc \in Awaits
                                              THEN "pending" ELSE "delivered"]]
    /\ UNCHANGED <<clients, ML_MODELS, outbox, broken, closed, nrec>>

\* CancelledError is thrown into handler h at the await it is suspended on.
\* In the handshake (lines 59-85) nothing catches it and there is no finally;
\* in the main loop line 164 catches it and the finally block runs; in the
\* finally block (line 170) it ends the handler. A write whose drain is
\* cancelled was handed to the stream by writer.write before: it reaches a
\* peer that is writable.
Cancelled(h) ==
    LET t == task[h]
        tc == [t EXCEPT !.cancel = "delivered"]
        target == IF t.pc = "bcast_drain" THEN t.all_writers[t.idx] ELSE h
        via == IF t.pc = "bcast_drain" THEN "broadcast" ELSE "direct"
        sent == t.pc \in {"direct_drain", "bcast_drain"} /\ Writable(target)
    IN  /\ t.cancel = "pending"
        /\ t.pc \in Awaits
        /\ outbox' = IF sent
                     THEN [outbox EXCEPT ![target] = Write(@, Delivery(t.response, h, via))]
                     ELSE outbox
        /\ IF t.pc = "login_read" \/ t.cont \in {"welcome", "reject", "leave"}
           THEN /\ task' = [task EXCEPT ![h] = [tc EXCEPT !.pc = "cancelled"]]
                /\ UNCHANGED <<clients, ML_MODELS, broken, closed, nrec>>
           ELSE RunFinally(h, tc)

\* the event loop can run handler h: the loop is not inside a call and no
\* CancelledError waits to be thrown into h
Runnable(h) == ~Blocked /\ task[h].cancel # "pending"

NextSessions ==
    \/ \E h \in Conns : Runnable(h) /\ ~Stopping /\ Accept(h)
    \/ \E h \in Conns : \E rec \in ChatLogins : Runnable(h) /\ LoginRead(h, rec)
    \/ \E h \in Conns : Runnable(h) /\ DirectDrain(h, TRUE)
    \/ \E h \in Conns : Runnable(h) /\ BcastDrain(h, TRUE)
    \/ \E h \in Conns : Runnable(h) /\ ReadCall(h)
    \/ \E h \in Conns : Runnable(h) /\ ReadEOF(h)
    \/ \E h \in Conns : Runnable(h) /\ WaitClosed(h)
    \/ \E h \in Conns : CallReturn(h)
    \/ ~Blocked /\ Shutdown
    \/ \E h \in Conns : ~Blocked /\ Cancelled(h)

\* line 190: the sentiment pipeline was loaded before the server listens
InitSessions == Init /\ ML_MODELS = {M_SENTIMENT}

SpecSessions == InitSessions /\ [][NextSessions]_vars

(***************************************************************************)
(* Properties.                                                             *)
(***************************************************************************)
\* the positions in the outbox of w of the envelopes that handler h sent
\* while handling its record number r
Entries(w, h, r) ==
    {i \in DOMAIN outbox[w] : outbox[w][i].origin = h /\ outbox[w][i].req = r}

\* the writers of a snapshot
Range(ws) == {ws[i] : i \in DOMAIN ws}

\* the text starts with one of the command prefixes
CommandPrefixed(text) ==
    \/ StartsWith(text, T_TRANSLATE)
    \/ StartsWith(text, T_GENERATE)
    \/ StartsWith(text, T_NER)

\* C1: a write failure to one recipient during broadcast() never prevents
\* the delivery of the envelope to the remaining recipients of the snapshot
\* whose own writes succeed: no broadcast ends by an exception while a
\* recipient it has not reached yet is writable.
C1_FailureDoesNotAbortBroadcast ==
    \A h \in Conns :
        task[h].bcast = "raised" =>
            \A i \in (task[h].idx + 1) .. Len(task[h].all_writers) :
                LET w == task[h].all_writers[i]
                IN  w # h => ~Writable(w)

\* C2: when exactly one recipient's write fails in a broadcast, that
\* recipient is gone from the registry and every other recipient of the
\* snapshot has received the envelope.
C2_OneFailureOthersDelivered ==
    \A h \in Conns :
        (task[h].bcast \in {"returned", "raised"} /\ Cardinality(task[h].failed) = 1) =>
            /\ \A w \in task[h].failed : ~InClients(clients, w)
            /\ \A w \in Range(task[h].all_writers) \ ({h} \cup task[h].failed) :
                   \E i \in Entries(w, h, task[h].req) : outbox[w][i].via = "broadcast"

\* C3: removing a session is idempotent: a cleanup path that finds the
\* handle already removed raises no error, neither the del of broadcast
\* (line 40) nor the del of the finally block (line 168).
C3_RemoveNeverRaises ==
    \A h \in Conns :
        /\ task[h].bcast # "raised"
        /\ ~(task[h].pc = "crashed" /\ task[h].cont = "leave")

\* the message text of the record that handler h is handling
RequestText(h) ==
    Strip(IF task[h].request.hasMsg THEN task[h].request.message ELSE EmptyStr)

\* w was registered before h and still is
Before(w, h) ==
    \E i, j \in 1 .. Len(clients) : i < j /\ clients[i].w = w /\ clients[j].w = h

\* C4: the server_response or error envelope that answers a command-prefixed
\* message is written to the connection that sent the command only: every
\* delivered envelope of type server_response or error, and every delivered
\* envelope that carries a command text, is in the outbox of its originator
\* by a direct send, and handling a command never calls broadcast().
C4_CommandRepliesDirect ==
    /\ \A w \in Conns : \A i \in DOMAIN outbox[w] :
           LET d == outbox[w][i]
           IN  (d.env.type \in {"server_response", "error"} \/ CommandPrefixed(d.env.text)) =>
                   (d.origin = w /\ d.via = "direct")
    /\ \A h \in Conns :
           (/\ task[h].cont \in {"loop", "chat"}
            /\ task[h].request.json = "object"
            /\ CommandPrefixed(RequestText(h))) =>
               (task[h].bcast = "none" /\ task[h].response.type \in {"server_response", "error"})

\* C4 witness: a session got the server_response to its command while
\* another session, registered before it, was writable.
C4_Witness ==
    \E h \in Conns, w \in Conns :
        /\ Before(w, h) /\ Writable(w) /\ task[w].pc = "read"
        /\ task[h].pc = "read" /\ task[h].req > 0
        /\ CommandPrefixed(RequestText(h))
        /\ \E i \in Entries(h, h, task[h].req) : outbox[h][i].env.type = "server_response"

\* the default path of h is over and all its writes succeeded
ChatDone(h) ==
    /\ task[h].cont = "chat"
    /\ task[h].bcast = "returned"
    /\ task[h].failed = {}
    /\ \E i \in Entries(h, h, task[h].req) : outbox[h][i].via = "direct"

\* C5: for a message without command prefix from a logged-in session, when
\* the writes succeed, one chat_message envelope with the sender's username,
\* the text and a sentiment label is delivered exactly once to the sender, by
\* the direct send, exactly once to every other session that was in the
\* registry when broadcast() was called, by the broadcast, and to nobody else.
C5_ChatDeliveredOnce ==
    \A h \in Conns :
        ChatDone(h) =>
            LET r == task[h].req
                others == Range(task[h].peers) \ {h}
            IN  /\ ~CommandPrefixed(RequestText(h))
                /\ Cardinality(Entries(h, h, r)) = 1
                /\ \A w \in others : Cardinality(Entries(w, h, r)) = 1
                /\ \A w \in Conns \ (others \cup {h}) : Entries(w, h, r) = {}
                /\ \A w \in Conns : \A i \in Entries(w, h, r) :
                       /\ outbox[w][i].via = (IF w = h THEN "direct" ELSE "broadcast")
                       /\ outbox[w][i].env = task[h].response
                /\ task[h].response.type = "chat_message"
                /\ task[h].response.username = task[h].username
                /\ task[h].response.text = RequestText(h)
                /\ task[h].response.label \in Labels

\* C5 witness: a chat message went to the sender and to two other sessions.
C5_Witness ==
    \E h \in Conns :
        /\ ChatDone(h)
        /\ Cardinality(Range(task[h].peers) \ {h}) >= 2

\* C6: when the first record is not a valid login the handshake fails: the
\* error envelope is sent (unless the stream is not writable), the connection
\* is closed and the handle is not in the registry.
C6_BadFirstRecordRejected ==
    \A h \in Conns :
        (task[h].cont = "reject" /\ task[h].pc \in {"done", "crashed"}) =>
            /\ closed[h]
            /\ ~InClients(clients, h)
            /\ broken[h] \/ \E i \in DOMAIN outbox[h] : outbox[h][i].env = InvalidLogin

\* C7: after a successful login of user X on a connection that is in order,
\* the welcome has been sent to the new connection and every other session
\* that was registered at that moment (and is writable) has received the
\* notification that X has joined.
C7_JoinNoticeDelivered ==
    \A h \in Conns :
        (task[h].cont = "join" /\ task[h].pc = "read" /\ Writable(h)) =>
            /\ \E i \in DOMAIN outbox[h] : outbox[h][i].env = Welcome(task[h].username)
            /\ \A w \in Range(task[h].peers) \ {h} :
                   Writable(w) =>
                       \E i \in DOMAIN outbox[w] :
                           /\ outbox[w][i].origin = h
                           /\ outbox[w][i].env = JoinNotice(task[h].username)

\* C8: after a session that joined as U has disconnected, every session that
\* remained in the registry (and is writable) has received exactly one
\* server_notification that names U and says that U has left.
C8_LeaveNoticeDelivered ==
    \A h \in Conns :
        (task[h].cont = "leave" /\ task[h].pc = "done") =>
            \A w \in Range(task[h].peers) \ {h} :
                Writable(w) =>
                    Cardinality({i \in DOMAIN outbox[w] :
                                    /\ outbox[w][i].origin = h
                                    /\ outbox[w][i].env = LeaveNotice(task[h].username)}) = 1

\* the first record of h was a login without username or with an empty one
UnnamedLogin(h) ==
    /\ task[h].login_info.json = "object"
    /\ task[h].login_info.type = "login"
    /\ task[h].login_info.username \in {NoKey, ""}

\* C9 as claimed: a login whose username is missing or empty is rejected and
\* no session is created for it.
C9_UnnamedLoginRejected ==
    \A h \in Conns : UnnamedLogin(h) => ~InClients(clients, h)

\* C9 as amended: a login whose username is missing or empty is accepted: the
\* handshake is not rejected and the session is registered under the fallback
\* name user_<port> (username missing) or under the empty name (username
\* empty), where it stays as long as the connection is neither broken nor
\* closed.
C9_UnnamedLoginAccepted ==
    \A h \in Conns :
        UnnamedLogin(h) =>
            LET name == IF task[h].login_info.username = NoKey
                        THEN "user_" \o ToString(h) ELSE ""
            IN  /\ task[h].cont # "reject"
                /\ task[h].username = name
                /\ Writable(h) => Get(clients, h, "<unregistered>") = name

\* C9 witness: a session that logged in without username is registered and
\* in its main loop.
C9_Witness ==
    \E h \in Conns :
        /\ UnnamedLogin(h) /\ task[h].login_info.username = NoKey
        /\ task[h].pc = "read"
        /\ Get(clients, h, "<unregistered>") = "user_" \o ToString(h)

\* the record that h has handled was malformed or out of schema: not JSON,
\* not an object, or an object whose type is not that of a chat request
BadRecord(h) ==
    \/ task[h].response = MalformedJson
    \/ task[h].request.json = "nonobject"
    \/ task[h].request.json = "object" /\ task[h].request.type \notin {NoKey, "chat_message"}

\* C10: for a malformed or out-of-schema record of a logged-in session whose
\* connection is in order, exactly one envelope is sent, an error to that
\* session, nothing goes to anyone else, the session stays in the registry
\* and the loop is back at its readline.
C10_BadRecordGetsOneError ==
    \A h \in Conns :
        (task[h].req > 0 /\ task[h].pc = "read" /\ BadRecord(h) /\ Writable(h)) =>
            /\ Cardinality(Entries(h, h, task[h].req)) = 1
            /\ \A i \in Entries(h, h, task[h].req) : outbox[h][i].env.type = "error"
            /\ \A w \in Conns \ {h} : Entries(w, h, task[h].req) = {}
            /\ InClients(clients, h)

\* the collaborator that the record handled by h needed was unavailable or
\* its call raised
CollabFailed(h) ==
    /\ task[h].req > 0
    /\ task[h].cont \in {"loop", "chat"}
    /\ task[h].collab \in {"unavailable", "raised"}

\* C11: when the collaborator of a request is unavailable or its call
\* raises, the requester whose connection is in order receives exactly one
\* envelope for that request, an error sent directly, no other session
\* receives anything for it, nothing is broadcast, the requester stays in
\* the registry and its loop is back at its readline.
C11_CollabFaultAnsweredDirectly ==
    \A h \in Conns :
        (CollabFailed(h) /\ Writable(h) /\ task[h].pc \notin {"direct_drain", "in_call"}) =>
            /\ task[h].pc = "read"
            /\ task[h].bcast = "none"
            /\ Cardinality(Entries(h, h, task[h].req)) = 1
            /\ \A i \in Entries(h, h, task[h].req) :
                   outbox[h][i].env.type = "error" /\ outbox[h][i].via = "direct"
            /\ \A w \in Conns \ {h} : Entries(w, h, task[h].req) = {}
            /\ InClients(clients, h)

\* C11 witness: a pipeline call raised for a requester that has a writable
\* peer in the registry, and the requester has its error and reads on.
C11_Witness ==
    \E h \in Conns : \E w \in Conns \ {h} :
        /\ CollabFailed(h) /\ task[h].collab = "raised"
        /\ task[h].pc = "read" /\ Writable(h)
        /\ InClients(clients, w) /\ Writable(w)
        /\ \E i \in Entries(h, h, task[h].req) : outbox[h][i].env = InternalError

\* the positions in the outbox of w of the chat messages that the session h
\* broadcast
ChatsFrom(w, h) ==
    {i \in DOMAIN outbox[w] : /\ outbox[w][i].origin = h
                              /\ outbox[w][i].via = "broadcast"
                              /\ outbox[w][i].env.type = "chat_message"}

C13_CleanupCompletes ==
    \A h \in Conns :
        task[h].cont = "leave" => ~InClients(clients, h) /\ closed[h]

\* C14: the snapshot that a broadcast takes holds exactly the handles that
\* are in the registry at that instant, each once: none that was removed
\* before, and every one that was added and not removed.
C14_SnapshotIsRegistry ==
    [][\A h \in Conns :
          (task[h].all_writers # task'[h].all_writers /\ task'[h].all_writers # << >>) =>
              /\ Range(task'[h].all_writers) = {w \in Conns : InClients(clients', w)}
              /\ Len(task'[h].all_writers) = Len(clients')]_vars

\* C14 witness: a broadcast runs over a snapshot of two handles or more
\* while a third session, which is not in the snapshot, has left.
C14_Witness ==
    \E h \in Conns : \E c \in Conns \ {h} :
        /\ task[h].bcast = "running"
        /\ Len(task[h].all_writers) >= 2
        /\ c \notin Range(task[h].all_writers)
        /\ task[c].cont = "leave"

\* handler c is suspended on an await that does not wait for its peer: the
\* drain of a write or wait_closed
ReadyToRun(c) ==
    /\ task[c].pc \in {"direct_drain", "bcast_drain", "wait_closed"}
    /\ task[c].cancel # "pending"

\* C15: while a handler is inside a collaborator call, every other handler
\* that is ready to go on can take its step.
C15_CallDoesNotBlock ==
    \A h \in Conns : \A c \in Conns \ {h} :
        (task[h].pc = "in_call" /\ ReadyToRun(c)) =>
            ENABLED (/\ Runnable(c)
                     /\ \/ DirectDrain(c, TRUE)
                        \/ BcastDrain(c, TRUE)
                        \/ WaitClosed(c))

\* the chat message of h was cut short by an exception of its broadcast
Interrupted(h) == task[h].bcast = "raised"

\* C16: no session gets an error envelope, and no request is cut short,
\* because of the fault of another connection: a session whose record ran
\* into no fault of its own (well-formed, collaborator in order, own stream
\* writable) is not interrupted and receives no error for it.
C16_FaultStaysLocal ==
    \A h \in Conns :
        (/\ task[h].req > 0
         /\ task[h].request.json = "object"
         /\ task[h].collab = "ok"
         /\ Writable(h)) =>
            /\ ~Interrupted(h)
            /\ \A i \in Entries(h, h, task[h].req) : outbox[h][i].env.type # "error"

\* the record that h has handled is an object without a type field (after
\* a line that is not JSON, request still is the record before it)
Typeless(h) ==
    /\ task[h].req > 0
    /\ task[h].response # MalformedJson
    /\ task[h].request.json = "object"
    /\ task[h].request.type = NoKey

\* C17: a record without a type field produces no envelope at all, neither
\* to its sender nor to any other session.
C17_TypelessIgnored ==
    \A h \in Conns :
        Typeless(h) => \A w \in Conns : Entries(w, h, task[h].req) = {}

\* C17 as amended: a record without a type field is handled like any chat
\* request: once the loop is back at its readline, a sender whose
\* connection is in order has been sent a direct envelope for it; plain text
\* has gone to the sentiment collaborator, and when that call succeeded the
\* sender has the chat message and the broadcast to the others was made.
C17_TypelessHandled ==
    \A h \in Conns :
        (/\ Typeless(h)
         /\ task[h].pc = "read"
         /\ task[h].cont \in {"loop", "chat"}
         /\ Writable(h)) =>
            LET plain == ~CommandPrefixed(RequestText(h))
                mine == Entries(h, h, task[h].req)
            IN  /\ \E i \in mine : outbox[h][i].via = "direct"
                /\ plain => task[h].collab # "none"
                /\ (plain /\ task[h].collab = "ok") =>
                       /\ \E i \in mine : /\ outbox[h][i].env.type = "chat_message"
                                          /\ outbox[h][i].via = "direct"
                       /\ task[h].bcast \in {"returned", "raised"}

\* C17 witness: the text of a record without type has reached its sender
\* and another session as a chat message.
C17_Witness ==
    \E h \in Conns : \E w \in Conns \ {h} :
        /\ Typeless(h) /\ task[h].pc = "read" /\ Writable(h)
        /\ \E i \in Entries(h, h, task[h].req) : outbox[h][i].env.type = "chat_message"
        /\ \E i \in Entries(w, h, task[h].req) : outbox[w][i].env.type = "chat_message"

\* C18: a handle is in the registry only after its handshake is over, the
\* welcome sent and the join notice broadcast: never while its welcome is
\* still being written.
C18_RegisteredAfterWelcome ==
    \A h \in Conns : InClients(clients, h) => task[h].cont # "welcome"

\* C18 as amended: the session is inserted as soon as its login record is
\* accepted, before the welcome: a handle is out of the registry until then,
\* it is in the registry while its welcome is being written to a connection
\* in order, and a session whose welcome was not delivered is out of the
\* registry again.
C18_RegisteredOnLogin ==
    \A h \in Conns :
        /\ task[h].pc \in {"idle", "login_read"} => ~InClients(clients, h)
        /\ (task[h].cont = "welcome" /\ Writable(h)) => InClients(clients, h)
        /\ (task[h].cont \in {"join", "loop", "chat", "leave"} /\ Entries(h, h, 0) = {}) =>
               ~InClients(clients, h)

\* C18 witness: a session is in the registry and nothing has been written to
\* it yet: its handler waits for the drain of the welcome.
C18_Witness ==
    \E h \in Conns :
        /\ task[h].pc = "direct_drain" /\ task[h].cont = "welcome"
        /\ InClients(clients, h)
        /\ outbox[h] = << >>

\* the text begins with the characters of p
Begins(s, p) == Len(s) >= Len(p) /\ \A i \in 1 .. Len(p) : s[i] = p[i]

\* nothing but spaces follows the first n characters of the text
BlankAfter(s, n) == \A i \in n + 1 .. Len(s) : s[i] = SP

\* the command that a trimmed text asks for, by its prefix
CommandOf(text) ==
    IF Begins(text, T_TRANSLATE) THEN "translate"
    ELSE IF Begins(text, T_GENERATE) THEN "generate"
    ELSE IF Begins(text, T_NER) THEN "ner"
    ELSE "default"

\* the command of the text lacks its arguments: !translate with fewer than
\* two fields after it, !generate or !ner with nothing after it
MissingArgs(text) ==
    \/ CommandOf(text) = "translate" /\ Cardinality({i \in DOMAIN text : text[i] = SP}) < 2
    \/ CommandOf(text) = "generate" /\ BlankAfter(text, Len(T_GENERATE))
    \/ CommandOf(text) = "ner" /\ BlankAfter(text, Len(T_NER))

\* the wordings of the answers of each branch of the dispatcher
BranchNotes ==
    [translate |-> {"usage translate", "translation", "translation model not available"},
     generate  |-> {"usage generate", "generated text"},
     ner       |-> {"usage ner", "entities found"},
     default   |-> {"chat"}]

Terminated(h) == task[h].pc \in {"done", "crashed", "cancelled"}

\* C20: once the handler of a connection has ended, by whatever path, its
\* handle is not in the registry.
C20_NoGhostSession ==
    \A h \in Conns : Terminated(h) => ~InClients(clients, h)

\* C21: a chat message that reached another session by broadcast comes from
\* a sender whose handle was in the registry when that broadcast started,
\* that is, in the snapshot the broadcast took: a session that was removed
\* has none of its messages delivered to the others.
C21_BroadcasterRegistered ==
    \A h \in Conns : \A w \in Conns \ {h} :
        (/\ task[h].cont \in {"loop", "chat"}
         /\ \E i \in Entries(w, h, task[h].req) :
                /\ outbox[w][i].via = "broadcast"
                /\ outbox[w][i].env.type = "chat_message") =>
            h \in Range(task[h].peers)

====
